---- MODULE Spec2Model ----
(***************************************************************************)
(* A model of scan-engine: the media-to-frames pipeline of                 *)
(* src/utils/video_utils.py (frame deduplication, readiness marker), the   *)
(* readiness wait of src/utils/helpers.py, and the scan / aggregation /    *)
(* request flow of src/main.py and src/handler.py.                         *)
(***************************************************************************)
EXTENDS Integers, Sequences, FiniteSets, TLC

(***************************************************************************)
(* Bounds of the model.                                                    *)
(***************************************************************************)
\* Most candidate files, over the three staging directories, of a small round.
MaxFiles == 3
\* A bulk staging directory holds its cap plus 0..MaxExcess candidate files.
MaxExcess == 1
\* Most paths handed to scan_frames.
MaxPaths == 2
\* Most frame results folded into one verdict.
MaxFrames == 3
\* Most jobs of a request that passes validation.
MaxJobs == 2
\* Most final frames an extraction yields within a request.
MaxJobFrames == 2
\* Most frames an FFmpeg run of the scene or fps executor leaves behind.
MaxSampled == 1
\* Most timestamps the spike detector hands to run_spike_frames.
MaxSpikes == 2
\* Most frames of a video given to the spike detector by itself.
MaxDetFrames == 4

(***************************************************************************)
(* Program constants.                                                      *)
(***************************************************************************)
\* add_frames(folder, cap=250)
DefaultCap == 250
\* extract_video_frames(..., max_fps_frames=60, ...)
max_fps_frames == 60
\* extract_video_frames(..., max_spike_frames=30)
max_spike_frames == 30
\* with ThreadPoolExecutor(max_workers=4) as pool
PoolWorkers == 4
\* for i in range(10): the producer's re-checks of the final frames
FlushRetries == 10
\* wait_for_done(output_dir, timeout=60)
WaitTimeout == 60
\* for attempt in range(5): the existence checks of scan_frames
ScanRetries == 5
\* is_nsfw = nsfw_score > 0.5, scores counted in tenths
NsfwThresholdTenths == 5
\* MAX_VIDEO_SIZE_MB = 100 * 1024 * 1024  # 100MB
MAX_VIDEO_SIZE_MB == 100 * 1024 * 1024
\* MAX_IMAGE_SIZE_MB = 10  # 10MB
MAX_IMAGE_SIZE_MB == 10
\* MAX_VIDEO_DURATION = 5 * 60
MAX_VIDEO_DURATION == 5 * 60
\* validate_input: 1 <= len(req["jobs"]) <= 40
MaxJobsPerRequest == 40
\* validate_input: req["type"] == "videos" and len(req["jobs"]) > 10
MaxVideoJobs == 10

None == "None"
\* md5 digests of the candidate files' bytes
Hashes == {"h1", "h2"}
\* What the environment does to one candidate: nothing, file_md5 raises,
\* shutil.move raises.
Faults == {"none", "hash", "move"}
\* nsfw_score values, in tenths: 0.1, 0.5, 0.9
Scores == {1, 5, 9}
\* What is wrong with a file handed to the scan: nothing, PIL's Image.open
\* raises on it, cv2.imread returns None for it.
Flaws == {"ok", "pil", "cv"}
\* "error": None of a FrameResult or Verdict
NoError == [kind |-> "None", path |-> 0]
Dirs == {"scene", "fps", "spike"}
\* add_frames(scene_dir); add_frames(fps_dir, ...); add_frames(spike_dir)
DirOrder == <<"scene", "fps", "spike">>

VARIABLES
    \* ---- extract_video_frames: the disk
    staging,      \* staging[d]: the candidate files of directory d, records
                  \*   [name, h, fault]: file name (its number), md5, fault
    staging0,     \* the staging directories as the executors left them
    final_dir,    \* hashes h with a file final/{h}.jpg
    lagging,      \* files of final_dir not yet flushed: os.path.exists
                  \*   does not see them
    done,         \* done.json: <<>> while absent, else <<[total_frames |-> n]>>
    \* ---- extract_video_frames: locals
    epc,          \* control position
    seen,         \* seen = set()
    frame_paths,  \* frame_paths = []: the claimed final frames, by hash
    folder,       \* add_frames: index in DirOrder of the folder being added
    listing,      \* add_frames: what is left of sorted(os.listdir(folder))
    count,        \* add_frames: count
    added,        \* add_frames: added
    missing,      \* missing = [f for f in frame_paths if not exists(f)]
    retry_i,      \* completed iterations of "for i in range(10)"
    \* ---- history of the deduplication
    visited,      \* the candidates visited, in order: [dir, name, h, fault]
    claimedFrom,  \* claimedFrom[i]: the candidate frame_paths[i] was moved from
    counts,       \* counts[d]: count when add_frames(d) ended, -1 before
    \* ---- wait_for_done
    wmeta,        \* what wait_for_done returned: <<>> before, else <<marker>>
    wstat,        \* number of stat-able files of final_dir when it was read
    wpc,          \* wait_for_done: "polling", "returned" or "timeout"
    waited,       \* wait_for_done: seconds slept since start
    \* ---- running the Deduplicator a second time
    run,          \* 1 or 2
    mode,         \* second run: "restored" staging contents, or as "left"
    first_paths,  \* frame_paths of the first run
    \* ---- scan_frames
    s_type,       \* media_type
    s_paths,      \* frame_paths, the paths numbered 1..n
    s_attr,       \* s_attr[p]: [flaw, score] of the file at path p
    s_disk0,      \* the paths present on disk when scan_frames is called
    s_disk,       \* the paths present on disk
    model_ok,     \* FALSE: loading or running the model raises
    spc,          \* control position
    attempt,      \* existence checks made
    s_missing,    \* missing, as the last check computed it
    classified,   \* calls of scan_images_for_nsfw
    s_results,    \* the list scan_frames returned
    s_error,      \* the RuntimeError scan_frames raised
    \* ---- the fold of a video job's frame results
    v_job_id,     \* job["job_id"]
    v_meta,       \* job.get("metadata", {})
    v_frames,     \* frame_results
    v_verdict,    \* <<>>, or <<the record appended to scan_results>>
    vpc,          \* "start" or "done"
    \* ---- handler / analyze_media / preprocess_media
    req,          \* the event: [shape, type, jobs]; jobs are their job_ids
    rpc,          \* control position: "start", "preprocess", "scan", "done"
    a_exit,       \* analyze_media: "running", "returned" or "raised"
    ji,           \* the job the running loop is at
    round_dir,    \* BASE_DIR/<round_id> exists
    jdisk,        \* jdisk[j]: what the work directory of job j holds
    preprocessed_jobs,
    scan_results, \* the local scan_results (for videos, video_results)
    response,     \* what handler returned
    jlog,         \* what happened to each job in preprocess_media, and to
                  \*   its frames in the scan loop of analyze_media
    \* ---- extract_video_frames: the three executors and the spike pool
    x_fps,        \* the fps cv2 reports for the video, in hundredths
    xpc,          \* the calling thread: "join", "shutdown", "done", "raised"
    join_i,       \* the future "for f in futures: f.result()" is at
    task,         \* task[t]: "running", "pool" (run_spike_frames inside its
                  \*   pool), "ok" or "failed"
    detected,     \* len of what detect_luma_spike_timestamps returned, -1 before
    worker,       \* worker[i]: extract_at_ts of timestamp i: "queued",
                  \*   "running", "ok" or "failed"
    x_error,      \* what extract_video_frames raised out of the executor
    \* ---- detect_luma_spike_timestamps
    d_opened,     \* cap.isOpened()
    d_fps,        \* cap.get(cv2.CAP_PROP_FPS), in hundredths
    d_frames,     \* frames the video holds
    dpc,          \* "start", "loop", "returned" or "raised"
    step,         \* step
    frame_idx,    \* frame_idx
    prev_gray,    \* prev_gray is not None
    last_spike,   \* the frame index of last_spike_time, -1 for its initial
                  \*   -suppression_window
    timestamps    \* timestamps, in hundredths of a second

evars == <<staging, staging0, final_dir, lagging, done, epc, seen, frame_paths,
           folder, listing, count, added, missing, retry_i, visited,
           claimedFrom, counts, wmeta, wstat, wpc, waited, run, mode,
           first_paths>>

svars == <<s_type, s_paths, s_attr, s_disk0, s_disk, model_ok, spc, attempt,
           s_missing, classified, s_results, s_error>>

vvars == <<v_job_id, v_meta, v_frames, v_verdict, vpc>>

rvars == <<req, rpc, a_exit, ji, round_dir, jdisk, preprocessed_jobs,
           scan_results, response, jlog>>

xvars == <<x_fps, xpc, join_i, task, detected, worker, x_error>>

dvars == <<d_opened, d_fps, d_frames, dpc, step, frame_idx, prev_gray,
           last_spike, timestamps>>

vars == <<evars, svars, vvars, rvars, xvars, dvars>>

(***************************************************************************)
(* Helpers.                                                                *)
(***************************************************************************)
Range(s) == {s[i] : i \in 1..Len(s)}

\* sorted(os.listdir(folder)): the files in ascending file-name order. The
\* names frame_001.jpg, frame_002.jpg, ... are modelled by their numbers;
\* a file's place in the listing is the number of names not above its own.
SortedListing(S) ==
    LET names == {f.name : f \in S}
        place == [n \in names |-> Cardinality({m \in names : m <= n})]
    IN  [i \in 1..Cardinality(S) |-> CHOOSE f \in S : place[f.name] = i]

\* add_frames(scene_dir), add_frames(fps_dir, cap=max_fps_frames),
\* add_frames(spike_dir)
CapOf(d) == IF d = "fps" THEN max_fps_frames ELSE DefaultCap

\* A mutant of CapReached: the comparison is off by one.
CapReachedLate(cap, c) == cap # 0 /\ c > cap

\* if cap and count >= cap: break
CapReached(cap, c) == cap # 0 /\ c >= cap

\* A mutant of FreshSeen: the set survives from one run to the next.
StaleSeen(old) == old

\* seen = set()
FreshSeen(old) == {}

\* A mutant of FramesMissing: only the last claimed frame is checked.
LastFrameMissing(paths, statable) ==
    IF paths # <<>> /\ paths[Len(paths)] \notin statable
    THEN {paths[Len(paths)]} ELSE {}

\* [f for f in frame_paths if not os.path.exists(f)]
FramesMissing(paths, statable) == {p \in Range(paths) : p \notin statable}

\* The files of final_dir that os.path.exists sees.
Statable == final_dir \ lagging

(***************************************************************************)
(* The staging directories the three executors may leave behind.           *)
(***************************************************************************)
FilesOf(c) == {[name |-> i, h |-> c[i][1], fault |-> c[i][2]] : i \in DOMAIN c}

\* Up to MaxFiles candidates over the three directories, any hashes, any
\* faults.
SmallStaging ==
    {[scene |-> FilesOf(cs), fps |-> FilesOf(cf), spike |-> FilesOf(cp)] :
        <<cs, cf, cp>> \in UNION {
            [1..ns -> Hashes \X Faults] \X [1..nf -> Hashes \X Faults]
                \X [1..np -> Hashes \X Faults] :
            <<ns, nf, np>> \in {t \in (0..MaxFiles) \X (0..MaxFiles) \X (0..MaxFiles) :
                                  t[1] + t[2] + t[3] <= MaxFiles}}}

\* n files of hash h1, the first with fault ft, the last of hash hl.
BulkDir(n, ft, hl) ==
    {[name |-> i,
      h |-> IF i = n THEN hl ELSE "h1",
      fault |-> IF i = 1 THEN ft ELSE "none"] : i \in 1..n}

\* One directory (scene or fps) holding its cap of candidates or more; the
\* spike directory holds at most max_spike_frames files and stays small.
BulkStaging ==
    {[scene |-> IF d = "scene" THEN BulkDir(CapOf(d) + x, ft, hl)
                ELSE {[name |-> 1, h |-> "h2", fault |-> "none"]},
      fps   |-> IF d = "fps" THEN BulkDir(CapOf(d) + x, ft, hl) ELSE {},
      spike |-> {[name |-> 0, h |-> hl, fault |-> "none"]}] :
        <<d, x, ft, hl>> \in {"scene", "fps"} \X (0..MaxExcess) \X Faults \X Hashes}

(***************************************************************************)
(* The parts of the program a specification leaves alone.                  *)
(***************************************************************************)
ExtractIdle ==
    /\ staging = [d \in Dirs |-> {}]
    /\ staging0 = staging
    /\ final_dir = {}
    /\ lagging = {}
    /\ done = <<>>
    /\ epc = "idle"
    /\ seen = {}
    /\ frame_paths = <<>>
    /\ folder = 1
    /\ listing = <<>>
    /\ count = 0
    /\ added = 0
    /\ missing = {}
    /\ retry_i = 0
    /\ visited = <<>>
    /\ claimedFrom = <<>>
    /\ counts = [d \in Dirs |-> -1]
    /\ wmeta = <<>>
    /\ wstat = 0
    /\ wpc = "idle"
    /\ waited = 0
    /\ run = 1
    /\ mode = None
    /\ first_paths = <<>>

ScanIdle ==
    /\ s_type = "videos"
    /\ s_paths = <<>>
    /\ s_attr = <<>>
    /\ s_disk0 = {}
    /\ s_disk = {}
    /\ model_ok = TRUE
    /\ spc = "idle"
    /\ attempt = 0
    /\ s_missing = {}
    /\ classified = 0
    /\ s_results = <<>>
    /\ s_error = [kind |-> "None", paths |-> {}]

VerdictIdle ==
    /\ v_job_id = "idle"
    /\ v_meta = <<>>
    /\ v_frames = <<>>
    /\ v_verdict = <<>>
    /\ vpc = "idle"

RequestIdle ==
    /\ req = [shape |-> "ok", type |-> "videos", jobs |-> <<>>]
    /\ rpc = "idle"
    /\ a_exit = "running"
    /\ ji = 1
    /\ round_dir = FALSE
    /\ jdisk = <<>>
    /\ preprocessed_jobs = <<>>
    /\ scan_results = <<>>
    /\ response = [status |-> "none"]
    /\ jlog = <<>>

SampleIdle ==
    /\ x_fps = 0
    /\ xpc = "idle"
    /\ join_i = 1
    /\ task = [t \in Dirs |-> "ok"]
    /\ detected = -1
    /\ worker = <<>>
    /\ x_error = "none"

DetectIdle ==
    /\ d_opened = FALSE
    /\ d_fps = 0
    /\ d_frames = 0
    /\ dpc = "idle"
    /\ step = 0
    /\ frame_idx = 0
    /\ prev_gray = FALSE
    /\ last_spike = -1
    /\ timestamps = <<>>

(***************************************************************************)
(* extract_video_frames after the three executors have been joined.        *)
(***************************************************************************)
InitExtract ==
    /\ staging \in SmallStaging \cup BulkStaging
    /\ staging0 = staging
    /\ final_dir = {}
    /\ lagging = {}
    /\ done = <<>>
    /\ epc = "add_frames"
    /\ seen = FreshSeen({})
    /\ frame_paths = <<>>
    /\ folder = 1
    /\ listing = <<>>
    /\ count = 0
    /\ added = 0
    /\ missing = {}
    /\ retry_i = 0
    /\ visited = <<>>
    /\ claimedFrom = <<>>
    /\ counts = [d \in Dirs |-> -1]
    /\ wmeta = <<>>
    /\ wstat = 0
    /\ wpc = "polling"
    /\ waited = 0
    /\ run = 1
    /\ mode = None
    /\ first_paths = <<>>
    /\ ScanIdle
    /\ VerdictIdle
    /\ RequestIdle
    /\ SampleIdle
    /\ DetectIdle

\* add_frames(folder, cap): count = 0; added = 0; sorted(os.listdir(folder))
AddFramesBegin ==
    /\ epc = "add_frames"
    /\ listing' = SortedListing(staging[DirOrder[folder]])
    /\ count' = 0
    /\ added' = 0
    /\ epc' = "loop"
    /\ UNCHANGED <<staging, staging0, final_dir, lagging, done, seen, frame_paths,
                   folder, missing, retry_i, visited, claimedFrom, counts,
                   wmeta, wstat, wpc, waited, run, mode, first_paths>>
    /\ UNCHANGED <<svars, vvars, rvars, xvars, dvars>>

\* One iteration of "for fname in sorted(os.listdir(folder))".
AddFramesVisit ==
    /\ epc = "loop"
    /\ listing # <<>>
    /\ ~CapReached(CapOf(DirOrder[folder]), count)
    /\ LET f == Head(listing)
           d == DirOrder[folder]
       IN  /\ listing' = Tail(listing)
           /\ visited' = Append(visited, [dir |-> d, name |-> f.name, h |-> f.h,
                                          fault |-> f.fault])
           /\ IF f.fault = "hash"
              THEN \* file_md5 raises: logged, the candidate is skipped
                   UNCHANGED <<seen, staging, final_dir, lagging, frame_paths,
                               claimedFrom, added, count>>
              ELSE IF f.h \notin seen
              THEN /\ seen' = seen \cup {f.h}
                   /\ IF f.fault = "move"
                      THEN \* shutil.move raises: logged, the candidate is skipped
                           UNCHANGED <<staging, final_dir, lagging, frame_paths,
                                       claimedFrom, added, count>>
                      ELSE /\ staging' = [staging EXCEPT ![d] = @ \ {f}]
                           /\ final_dir' = final_dir \cup {f.h}
                           /\ lagging' = lagging \cup {f.h}
                           /\ frame_paths' = Append(frame_paths, f.h)
                           /\ claimedFrom' = Append(claimedFrom, <<d, f.name>>)
                           /\ added' = added + 1
                           /\ count' = count + 1
              ELSE /\ count' = count + 1
                   /\ UNCHANGED <<seen, staging, final_dir, lagging, frame_paths,
                                  claimedFrom, added>>
    /\ UNCHANGED <<staging0, done, epc, folder, missing, retry_i, counts,
                   wmeta, wstat, wpc, waited, run, mode, first_paths>>
    /\ UNCHANGED <<svars, vvars, rvars, xvars, dvars>>

\* The loop of add_frames ends: the listing is exhausted or the cap reached.
AddFramesEnd ==
    /\ epc = "loop"
    /\ listing = <<>> \/ CapReached(CapOf(DirOrder[folder]), count)
    /\ counts' = [counts EXCEPT ![DirOrder[folder]] = count]
    /\ IF folder < Len(DirOrder)
       THEN folder' = folder + 1 /\ epc' = "add_frames"
       ELSE folder' = folder /\ epc' = "check"
    /\ UNCHANGED <<staging, staging0, final_dir, lagging, done, seen, frame_paths,
                   listing, count, added, missing, retry_i, visited, claimedFrom,
                   wmeta, wstat, wpc, waited, run, mode, first_paths>>
    /\ UNCHANGED <<svars, vvars, rvars, xvars, dvars>>

\* The file system makes a moved file visible to os.path.exists.
Flush ==
    /\ \E h \in lagging : lagging' = lagging \ {h}
    /\ UNCHANGED <<staging, staging0, final_dir, done, epc, seen, frame_paths,
                   folder, listing, count, added, missing, retry_i, visited,
                   claimedFrom, counts, wmeta, wstat, wpc, waited, run, mode, first_paths>>
    /\ UNCHANGED <<svars, vvars, rvars, xvars, dvars>>

\* missing = [f for f in frame_paths if not os.path.exists(f)]; if missing: ...
BarrierCheck ==
    /\ epc = "check"
    /\ missing' = FramesMissing(frame_paths, Statable)
    /\ retry_i' = 0
    /\ epc' = IF missing' = {} THEN "verdict" ELSE "retry"
    /\ UNCHANGED <<staging, staging0, final_dir, lagging, done, seen, frame_paths,
                   folder, listing, count, added, visited, claimedFrom, counts,
                   wmeta, wstat, wpc, waited, run, mode, first_paths>>
    /\ UNCHANGED <<svars, vvars, rvars, xvars, dvars>>

\* One iteration of "for i in range(10)": sleep 0.25 s, look again, break
\* when nothing is missing; the loop also ends with its tenth iteration.
BarrierRetry ==
    /\ epc = "retry"
    /\ retry_i < FlushRetries
    /\ missing' = FramesMissing(frame_paths, Statable)
    /\ retry_i' = retry_i + 1
    /\ epc' = IF missing' = {} \/ retry_i' = FlushRetries THEN "verdict" ELSE "retry"
    /\ UNCHANGED <<staging, staging0, final_dir, lagging, done, seen, frame_paths,
                   folder, listing, count, added, visited, claimedFrom, counts,
                   wmeta, wstat, wpc, waited, run, mode, first_paths>>
    /\ UNCHANGED <<svars, vvars, rvars, xvars, dvars>>

\* A mutant of BarrierRaise: the error is raised while re-checks are left.
BarrierRaiseEarly ==
    /\ epc \in {"retry", "verdict"}
    /\ missing # {}
    /\ epc' = "raised"
    /\ UNCHANGED <<staging, staging0, final_dir, lagging, done, seen, frame_paths,
                   folder, listing, count, added, missing, retry_i, visited,
                   claimedFrom, counts, wmeta, wstat, wpc, waited, run, mode,
                   first_paths>>
    /\ UNCHANGED <<svars, vvars, rvars, xvars, dvars>>

\* if missing: raise FileNotFoundError(...)
BarrierRaise ==
    /\ epc = "verdict"
    /\ missing # {}
    /\ epc' = "raised"
    /\ UNCHANGED <<staging, staging0, final_dir, lagging, done, seen, frame_paths,
                   folder, listing, count, added, missing, retry_i, visited,
                   claimedFrom, counts, wmeta, wstat, wpc, waited, run, mode,
                   first_paths>>
    /\ UNCHANGED <<svars, vvars, rvars, xvars, dvars>>

\* A mutant of WriteDone: extract_video_frames returns and leaves the
\* writing of done.json to later.
WriteDoneSkipped ==
    /\ epc = "verdict"
    /\ missing = {}
    /\ epc' = "returned"
    /\ UNCHANGED <<staging, staging0, final_dir, lagging, done, seen, frame_paths,
                   folder, listing, count, added, missing, retry_i, visited,
                   claimedFrom, counts, wmeta, wstat, wpc, waited, run, mode,
                   first_paths>>
    /\ UNCHANGED <<svars, vvars, rvars, xvars, dvars>>

\* else: done.json is written with total_frames = len(frame_paths); return
WriteDone ==
    /\ epc = "verdict"
    /\ missing = {}
    /\ done' = <<[total_frames |-> Len(frame_paths)]>>
    /\ epc' = "returned"
    /\ UNCHANGED <<staging, staging0, final_dir, lagging, seen, frame_paths,
                   folder, listing, count, added, missing, retry_i, visited,
                   claimedFrom, counts, wmeta, wstat, wpc, waited, run, mode,
                   first_paths>>
    /\ UNCHANGED <<svars, vvars, rvars, xvars, dvars>>

\* A mutant of WaitForDone: the timeout is never raised.
WaitForDoneForever ==
    /\ epc \in {"returned", "producing"}
    /\ wpc = "polling"
    /\ IF done # <<>>
       THEN /\ wmeta' = done
            /\ wstat' = Cardinality(Statable)
            /\ wpc' = "returned"
            /\ waited' = waited
       ELSE IF waited > WaitTimeout
       THEN UNCHANGED <<wmeta, wstat, wpc, waited>>
       ELSE /\ waited' = waited + 1
            /\ UNCHANGED <<wmeta, wstat, wpc>>
    /\ UNCHANGED <<staging, staging0, final_dir, lagging, done, epc, seen,
                   frame_paths, folder, listing, count, added, missing, retry_i,
                   visited, claimedFrom, counts, run, mode, first_paths>>
    /\ UNCHANGED <<svars, vvars, rvars, xvars, dvars>>

\* wait_for_done: one evaluation of the loop condition and what follows it
\* (the timeout test and a sleep of 1 s, or reading the marker). It is
\* called by preprocess_media once extract_video_frames has returned, or,
\* taken by itself, while the marker's producer is still at work.
WaitForDone ==
    /\ epc \in {"returned", "producing"}
    /\ wpc = "polling"
    /\ IF done # <<>>
       THEN /\ wmeta' = done
            /\ wstat' = Cardinality(Statable)
            /\ wpc' = "returned"
            /\ waited' = waited
       ELSE IF waited > WaitTimeout
       THEN /\ wpc' = "timeout"
            /\ UNCHANGED <<wmeta, wstat, waited>>
       ELSE /\ waited' = waited + 1
            /\ UNCHANGED <<wmeta, wstat, wpc>>
    /\ UNCHANGED <<staging, staging0, final_dir, lagging, done, epc, seen,
                   frame_paths, folder, listing, count, added, missing, retry_i,
                   visited, claimedFrom, counts, run, mode, first_paths>>
    /\ UNCHANGED <<svars, vvars, rvars, xvars, dvars>>

NextExtract ==
    \/ AddFramesBegin
    \/ AddFramesVisit
    \/ AddFramesEnd
    \/ Flush
    \/ BarrierCheck
    \/ BarrierRetry
    \/ BarrierRaise
    \/ WriteDone
    \/ WaitForDone

SpecExtract == InitExtract /\ [][NextExtract]_vars

(***************************************************************************)
(* The Deduplicator run a second time, with a fresh seen set, over the     *)
(* staging directories restored to what they held, or as the first run     *)
(* left them.                                                              *)
(***************************************************************************)
Rerun ==
    /\ epc = "check"
    /\ run = 1
    /\ run' = 2
    /\ first_paths' = frame_paths
    /\ \E m \in {"restored", "left"} :
         /\ mode' = m
         /\ staging' = IF m = "restored" THEN staging0 ELSE staging
    /\ seen' = FreshSeen(seen)
    /\ frame_paths' = <<>>
    /\ folder' = 1
    /\ epc' = "add_frames"
    /\ visited' = <<>>
    /\ claimedFrom' = <<>>
    /\ counts' = [d \in Dirs |-> -1]
    /\ UNCHANGED <<staging0, final_dir, lagging, done, listing, count, added,
                   missing, retry_i, wmeta, wstat, wpc, waited>>
    /\ UNCHANGED <<svars, vvars, rvars, xvars, dvars>>

NextRerun ==
    \/ AddFramesBegin
    \/ AddFramesVisit
    \/ AddFramesEnd
    \/ Rerun

InitRerun == InitExtract /\ staging \in SmallStaging

SpecRerun == InitRerun /\ [][NextRerun]_vars

(***************************************************************************)
(* Properties of the extraction.                                           *)
(***************************************************************************)
DirIdx(d) == CHOOSE i \in 1..Len(DirOrder) : DirOrder[i] = d

\* The Deduplicator has finished its three passes.
DedupOver == epc \notin {"add_frames", "loop"}

\* The visited candidates whose hash was computed.
HashedIdx == {i \in 1..Len(visited) : visited[i].fault # "hash"}

\* The first visited candidate of hash h.
FirstOf(h) ==
    CHOOSE i \in HashedIdx :
        /\ visited[i].h = h
        /\ \A j \in HashedIdx : visited[j].h = h => i <= j

VisitedOf(d) == {i \in 1..Len(visited) : visited[i].dir = d}

Unvisited(d) ==
    {f \in staging0[d] :
        \A i \in VisitedOf(d) : visited[i].name # f.name}

\* C2: whenever done.json exists, every claimed final frame is stat-able and
\* total_frames is at most the number of files in final_dir; wait_for_done
\* never returns a marker whose total_frames exceeds the number of stat-able
\* files of final_dir at the time it read the marker.
C2_MarkerAfterFrames ==
    /\ done # <<>> =>
          /\ \A p \in Range(frame_paths) : p \in Statable
          /\ done[1].total_frames <= Cardinality(final_dir)
    /\ wmeta # <<>> => wmeta[1].total_frames <= wstat

\* C2 witness: the marker was read after a retry of the existence check, for
\* two final frames.
C2_Witness ==
    /\ wmeta # <<>>
    /\ wmeta[1].total_frames = 2
    /\ retry_i > 0

\* The hashes some visited candidate could deliver: its hash was computed
\* and its move does not fail.
Deliverable == {visited[i].h : i \in {j \in HashedIdx : visited[j].fault = "none"}}

\* C4: the directories are visited in the order scene, fps, spike and each in
\* file-name order; for every hash among the visited candidates exactly one
\* final frame is claimed, from the first visited candidate of that hash; the
\* claimed sequence has no duplicate and lists scene-claimed frames before
\* fps-claimed frames before spike-claimed frames. (Asked only of the hashes
\* that some visited candidate could deliver: no Deduplicator can claim a
\* hash whose every candidate fails to move.)
C4_FirstWriterWins ==
    DedupOver =>
      /\ \A i, j \in 1..Len(visited) :
            i < j =>
              \/ DirIdx(visited[i].dir) < DirIdx(visited[j].dir)
              \/ /\ visited[i].dir = visited[j].dir
                 /\ visited[i].name < visited[j].name
      /\ \A h \in Deliverable :
            /\ Cardinality({k \in 1..Len(frame_paths) : frame_paths[k] = h}) = 1
            /\ \A k \in 1..Len(frame_paths) :
                  frame_paths[k] = h =>
                    claimedFrom[k] = <<visited[FirstOf(h)].dir, visited[FirstOf(h)].name>>
      /\ \A k, l \in 1..Len(frame_paths) :
            k < l =>
              /\ frame_paths[k] # frame_paths[l]
              /\ DirIdx(claimedFrom[k][1]) <= DirIdx(claimedFrom[l][1])

C6_OnlyFpsCapped ==
    DedupOver =>
      /\ Cardinality(VisitedOf("fps")) <= max_fps_frames
      /\ Unvisited("scene") = {}
      /\ Unvisited("spike") = {}

\* C6 amended: every directory is capped, fps at max_fps_frames, scene and
\* spike at the default cap of add_frames: a pass ends with count at most its
\* cap, leaves a candidate unvisited only when count is the cap, counts every
\* visited candidate but those that failed, and claims every visited
\* candidate of a new hash that did not fail.
C6_EveryFolderCapped ==
    \A d \in Dirs :
      counts[d] # -1 =>
        /\ counts[d] <= CapOf(d)
        /\ Unvisited(d) # {} => counts[d] = CapOf(d)
        /\ counts[d] <= Cardinality(VisitedOf(d))
        /\ Cardinality(VisitedOf(d)) <=
             counts[d] + Cardinality({i \in VisitedOf(d) : visited[i].fault # "none"})
        /\ \A i \in VisitedOf(d) :
              (/\ visited[i].fault = "none"
               /\ \A j \in HashedIdx : j < i => visited[j].h # visited[i].h)
              => \E k \in 1..Len(claimedFrom) :
                    claimedFrom[k] = <<d, visited[i].name>>

\* C6 witness: the scene pass stopped at the default cap with a candidate of
\* the scene directory left unvisited.
C6_Witness ==
    /\ DedupOver
    /\ counts["scene"] = DefaultCap
    /\ Unvisited("scene") # {}

(***************************************************************************)
(* scan_frames (src/main.py) and scan_images_for_nsfw                      *)
(* (src/utils/nsfw_utils.py).                                              *)
(***************************************************************************)
Min(a, b) == IF a <= b THEN a ELSE b

\* score_dict = {label: float(probs[j][k])}: the model's two labels.
ScoreDict(score) == {<<"nsfw", score>>, <<"normal", 10 - score>>}

\* scan_images_for_nsfw(image_paths): [raised, error, out]. Loading the
\* model or Image.open on some path may raise; otherwise one tuple
\* (path, is_nsfw, nsfw_score, score_dict) per path, in order. (The batches
\* of 32 only group the same per-path work.)
scan_images_for_nsfw(paths, attr, ok) ==
    IF paths = <<>> THEN [raised |-> FALSE, error |-> NoError, out |-> <<>>]
    ELSE IF ~ok
    THEN [raised |-> TRUE, error |-> [kind |-> "model", path |-> 0], out |-> <<>>]
    ELSE IF \E i \in 1..Len(paths) : attr[paths[i]].flaw = "pil"
    THEN [raised |-> TRUE,
          error |-> [kind |-> "cannot identify image file",
                     path |-> paths[CHOOSE i \in 1..Len(paths) :
                                      /\ attr[paths[i]].flaw = "pil"
                                      /\ \A j \in 1..(i - 1) : attr[paths[j]].flaw # "pil"]],
          out |-> <<>>]
    ELSE [raised |-> FALSE, error |-> NoError,
          out |-> [i \in 1..Len(paths) |->
                     [path |-> paths[i],
                      is_nsfw |-> attr[paths[i]].score > NsfwThresholdTenths,
                      nsfw_score |-> attr[paths[i]].score,
                      full_probs |-> ScoreDict(attr[paths[i]].score)]]]

\* for frame_path, (_, is_nsfw, nsfw_score, full_probs) in zip(frame_paths,
\* scan_results): one FrameResult per pair; for images cv2.imread returning
\* None raises ValueError. (The width, height and size_mb that an image's
\* result also carries are read from the file and left out.)
Reshape(media_type, paths, tuples, attr) ==
    LET n == Min(Len(paths), Len(tuples))
        unreadable == {i \in 1..n : media_type = "images" /\ attr[paths[i]].flaw = "cv"}
    IN  IF unreadable # {}
        THEN [raised |-> TRUE,
              error |-> [kind |-> "Could not read image",
                         path |-> paths[CHOOSE i \in unreadable :
                                          \A j \in unreadable : i <= j]],
              out |-> <<>>]
        ELSE [raised |-> FALSE, error |-> NoError,
              out |-> [i \in 1..n |->
                         [filename |-> paths[i],
                          is_nsfw |-> tuples[i].is_nsfw,
                          nsfw_score |-> tuples[i].nsfw_score,
                          full_probs |-> tuples[i].full_probs,
                          error |-> NoError]]]

\* A mutant of Degraded: a failed stage returns no result at all.
DegradedNone(paths, err) == <<>>

\* A mutant of Degraded: only the paths before the failure get a result.
DegradedPartial(paths, err) ==
    [i \in 1..(Len(paths) - 1) |->
        [filename |-> paths[i], is_nsfw |-> FALSE, nsfw_score |-> 0,
         full_probs |-> {}, error |-> err]]

\* except Exception as e: return [{..., "is_nsfw": False, "nsfw_score": 0.0,
\* "full_probs": {}, "error": str(e)} for p in frame_paths]
Degraded(paths, err) ==
    [i \in 1..Len(paths) |->
        [filename |-> paths[i], is_nsfw |-> FALSE, nsfw_score |-> 0,
         full_probs |-> {}, error |-> err]]

\* The try block of scan_frames and its except clause.
ScanTry(media_type, paths, attr, ok) ==
    LET c == scan_images_for_nsfw(paths, attr, ok)
        r == Reshape(media_type, paths, c.out, attr)
    IN  IF c.raised THEN Degraded(paths, c.error)
        ELSE IF r.raised THEN Degraded(paths, r.error)
        ELSE r.out

\* A mutant of RetryLeft: one attempt too many.
RetryLeftLoose(a) == a < ScanRetries + 1

\* for attempt in range(5): another iteration is left
RetryLeft(a) == a < ScanRetries

PathAttrs == [flaw : Flaws, score : Scores]

InitScan ==
    /\ ExtractIdle
    /\ VerdictIdle
    /\ RequestIdle
    /\ SampleIdle
    /\ DetectIdle
    /\ s_type \in {"images", "videos"}
    /\ \E n \in 0..MaxPaths :
         /\ s_paths = [i \in 1..n |-> i]
         /\ s_attr \in [1..n -> PathAttrs]
         /\ s_disk0 \in SUBSET (1..n)
    /\ s_disk = s_disk0
    /\ model_ok \in BOOLEAN
    /\ spc = "start"
    /\ attempt = 0
    /\ s_missing = {}
    /\ classified = 0
    /\ s_results = <<>>
    /\ s_error = [kind |-> "None", paths |-> {}]

\* if not frame_paths: return []
ScanEnter ==
    /\ spc = "start"
    /\ spc' = IF s_paths = <<>> THEN "returned" ELSE "check"
    /\ UNCHANGED <<s_type, s_paths, s_attr, s_disk0, s_disk, model_ok, attempt,
                   s_missing, classified, s_results, s_error>>
    /\ UNCHANGED <<evars, vvars, rvars, xvars, dvars>>

\* One iteration of "for attempt in range(5)" up to its break:
\* missing = [p for p in frame_paths if not os.path.exists(p)]
ScanCheck ==
    /\ spc = "check"
    /\ s_missing' = {p \in Range(s_paths) : p \notin s_disk}
    /\ attempt' = attempt + 1
    /\ spc' = IF s_missing' = {} THEN "classify" ELSE "sleep"
    /\ UNCHANGED <<s_type, s_paths, s_attr, s_disk0, s_disk, model_ok,
                   classified, s_results, s_error>>
    /\ UNCHANGED <<evars, vvars, rvars, xvars, dvars>>

\* time.sleep(0.5), then the next iteration, or the loop's else clause:
\* raise RuntimeError(f"[ERROR] Final frames missing: {missing}")
ScanSleep ==
    /\ spc = "sleep"
    /\ IF RetryLeft(attempt)
       THEN spc' = "check" /\ s_error' = s_error
       ELSE /\ spc' = "raised"
            /\ s_error' = [kind |-> "Final frames missing", paths |-> s_missing]
    /\ UNCHANGED <<s_type, s_paths, s_attr, s_disk0, s_disk, model_ok, attempt,
                   s_missing, classified, s_results>>
    /\ UNCHANGED <<evars, vvars, rvars, xvars, dvars>>

\* A file that was still being flushed appears on disk.
Appear ==
    /\ spc \in {"check", "sleep"}
    /\ \E p \in Range(s_paths) \ s_disk : s_disk' = s_disk \cup {p}
    /\ UNCHANGED <<s_type, s_paths, s_attr, s_disk0, model_ok, spc, attempt,
                   s_missing, classified, s_results, s_error>>
    /\ UNCHANGED <<evars, vvars, rvars, xvars, dvars>>

\* try: scan_images_for_nsfw, the reshaping loop, return results;
\* except Exception: return the degraded list
ScanClassify ==
    /\ spc = "classify"
    /\ classified' = classified + 1
    /\ s_results' = ScanTry(s_type, s_paths, s_attr, model_ok)
    /\ spc' = "returned"
    /\ UNCHANGED <<s_type, s_paths, s_attr, s_disk0, s_disk, model_ok, attempt,
                   s_missing, s_error>>
    /\ UNCHANGED <<evars, vvars, rvars, xvars, dvars>>

NextScan ==
    \/ ScanEnter
    \/ ScanCheck
    \/ ScanSleep
    \/ Appear
    \/ ScanClassify

SpecScan == InitScan /\ [][NextScan]_vars

\* Something in the try block of scan_frames raises.
StageRaises ==
    \/ ~model_ok
    \/ \E p \in Range(s_paths) : s_attr[p].flaw = "pil"
    \/ s_type = "images" /\ \E p \in Range(s_paths) : s_attr[p].flaw = "cv"

\* C8: for a non-empty list of paths all present on disk, scan_frames raises
\* nothing and returns one FrameResult per path, in input order: with the
\* classifier's values and error None when nothing raised, and with
\* is_nsfw false, nsfw_score 0.0 and the error set when the stage raised.
C8_OneResultPerPath ==
    /\ (s_paths # <<>> /\ Range(s_paths) \subseteq s_disk0) => spc # "raised"
    /\ (s_paths # <<>> /\ spc = "returned") =>
          /\ Len(s_results) = Len(s_paths)
          /\ \A i \in 1..Len(s_paths) :
                /\ s_results[i].filename = s_paths[i]
                /\ IF StageRaises
                   THEN /\ s_results[i].is_nsfw = FALSE
                        /\ s_results[i].nsfw_score = 0
                        /\ s_results[i].error # NoError
                   ELSE /\ s_results[i].error = NoError
                        /\ s_results[i].nsfw_score = s_attr[s_paths[i]].score
                        /\ s_results[i].is_nsfw = (s_attr[s_paths[i]].score > 5)

\* C8 witness: two images present on disk, the second unreadable to
\* cv2.imread after the first was reshaped: two degraded results.
C8_Witness ==
    /\ spc = "returned"
    /\ s_type = "images"
    /\ model_ok
    /\ Len(s_paths) = 2
    /\ Range(s_paths) \subseteq s_disk0
    /\ s_attr[1].flaw = "ok"
    /\ s_attr[2].flaw = "cv"
    /\ Len(s_results) = 2
    /\ s_results[1].error # NoError

\* C9: the existence check is made at most 5 times; the classifier is called
\* once a check found every path present and never otherwise; when the 5th
\* check still finds a path missing scan_frames raises, listing the missing
\* paths, without calling the classifier and without returning results.
C9_BoundedRetry ==
    /\ attempt <= 5
    /\ spc = "classify" => (attempt >= 1 /\ s_missing = {} /\ classified = 0)
    /\ (attempt >= 1 /\ s_missing = {}) => spc \in {"classify", "returned"}
    /\ classified > 0 => (s_missing = {} /\ classified = 1 /\ spc = "returned")
    /\ (attempt = 5 /\ s_missing # {}) => spc \in {"sleep", "raised"}
    /\ spc = "sleep" => (s_missing # {} /\ classified = 0)
    /\ spc = "raised" =>
          /\ attempt = 5
          /\ s_missing # {}
          /\ s_error = [kind |-> "Final frames missing", paths |-> s_missing]
          /\ classified = 0
          /\ s_results = <<>>

\* C9 witness: the fifth check found a path missing and scan_frames raised.
C9_Witness ==
    /\ spc = "raised"
    /\ attempt = 5
    /\ s_error.paths # {}

(***************************************************************************)
(* The fold of one video job's frame results (analyze_media).              *)
(***************************************************************************)
\* meta.get(key): <<the value>>, or <<>> for None
MetaGet(meta, key) == IF key \in DOMAIN meta THEN <<meta[key]>> ELSE <<>>

\* A mutant of Better: a later frame of the same score replaces the best.
BetterOrEqual(x, best) == x.nsfw_score >= best.nsfw_score

\* max(..., key=...) replaces its best only by a strictly greater key
Better(x, best) == x.nsfw_score > best.nsfw_score

RECURSIVE MaxFrom(_, _, _)
MaxFrom(frames, i, best) ==
    IF i > Len(frames) THEN best
    ELSE MaxFrom(frames, i + 1, IF Better(frames[i], best) THEN frames[i] ELSE best)

\* max(frame_results, key=lambda x: x["nsfw_score"])
MostNsfw(frames) == MaxFrom(frames, 2, frames[1])

RECURSIVE SumScores(_, _)
SumScores(frames, i) ==
    IF i > Len(frames) THEN 0 ELSE frames[i].nsfw_score + SumScores(frames, i + 1)

\* round(sum(scores) / len(frame_results), 4), in units of 0.0001: the scores
\* are tenths, so the mean is sum * 1000 / n of these units, rounded to the
\* nearest, a half to the even neighbour.
AvgScore(frames) ==
    LET n == Len(frames)
        t == SumScores(frames, 1) * 1000
        q == t \div n
        r == t % n
    IN  IF 2 * r > n THEN q + 1
        ELSE IF 2 * r < n THEN q
        ELSE IF q % 2 = 0 THEN q ELSE q + 1

\* The record analyze_media appends to scan_results.
VideoVerdict(job_id, meta, frames) ==
    [filename |-> IF "original_filename" \in DOMAIN meta
                  THEN meta["original_filename"] ELSE job_id,
     is_nsfw |-> \E i \in 1..Len(frames) : frames[i].is_nsfw,
     nsfw_score_max |-> MostNsfw(frames).nsfw_score,
     nsfw_score_avg |-> AvgScore(frames),
     full_probs |-> MostNsfw(frames).full_probs,
     frame_count |-> Len(frames),
     engine_version |-> "scan-engine-v1",
     width |-> MetaGet(meta, "width"),
     height |-> MetaGet(meta, "height"),
     duration |-> MetaGet(meta, "duration"),
     fps |-> MetaGet(meta, "fps"),
     size_mb |-> MetaGet(meta, "size_mb"),
     error |-> NoError]

\* Descriptor metadata as preprocess_media builds it, and the empty dict.
Metas ==
    {<<>>,
     [width |-> 1920, height |-> 1080, duration |-> 12, fps |-> 30,
      size_mb |-> 100, original_filename |-> "a.mp4"],
     [width |-> 320, height |-> 240, duration |-> 300, fps |-> 25,
      size_mb |-> 1, original_filename |-> "b.mkv"]}

\* Frame results: any flag, any score, the score dict of the score or one
\* that lost a tenth to rounding.
FrameResults ==
    {[filename |-> 0, is_nsfw |-> b, nsfw_score |-> sc,
      full_probs |-> {<<"nsfw", sc>>, <<"normal", 10 - sc - x>>},
      error |-> NoError] : <<b, sc, x>> \in BOOLEAN \X Scores \X {0, 1}}

InitVerdict ==
    /\ ExtractIdle
    /\ ScanIdle
    /\ RequestIdle
    /\ SampleIdle
    /\ DetectIdle
    /\ v_job_id = "job1"
    /\ v_meta \in Metas
    /\ \E n \in 1..MaxFrames : v_frames \in [1..n -> FrameResults]
    /\ v_verdict = <<>>
    /\ vpc = "start"

\* most_nsfw = max(...); avg_score = ...; scan_results.append({...})
Aggregate ==
    /\ vpc = "start"
    /\ v_verdict' = <<VideoVerdict(v_job_id, v_meta, v_frames)>>
    /\ vpc' = "done"
    /\ UNCHANGED <<v_job_id, v_meta, v_frames>>
    /\ UNCHANGED <<evars, svars, rvars, xvars, dvars>>

NextVerdict == Aggregate

SpecVerdict == InitVerdict /\ [][NextVerdict]_vars

\* C7: for a non-empty list of frame results, is_nsfw is true iff some frame
\* is nsfw, nsfw_score_max is the greatest frame score, full_probs is that of
\* the first frame attaining it, frame_count is the number of frame results
\* and width, height, duration, fps, size_mb are those of the metadata.
C7_VerdictIsFold ==
    vpc = "done" =>
      LET v == v_verdict[1]
          n == Len(v_frames)
      IN  /\ v.is_nsfw = (\E i \in 1..n : v_frames[i].is_nsfw)
          /\ \A i \in 1..n : v_frames[i].nsfw_score <= v.nsfw_score_max
          /\ \E i \in 1..n :
                /\ v_frames[i].nsfw_score = v.nsfw_score_max
                /\ \A j \in 1..(i - 1) : v_frames[j].nsfw_score < v.nsfw_score_max
                /\ v.full_probs = v_frames[i].full_probs
          /\ v.frame_count = n
          /\ \A k \in {"width", "height", "duration", "fps", "size_mb"} :
                v[k] = (IF k \in DOMAIN v_meta THEN <<v_meta[k]>> ELSE <<>>)

\* C7 witness: three frames, the greatest score attained by the second and
\* by the third with another score dict, and a false flag on the first.
C7_Witness ==
    /\ vpc = "done"
    /\ Len(v_frames) = 3
    /\ v_frames[2].nsfw_score = 9
    /\ v_frames[3].nsfw_score = 9
    /\ v_frames[1].nsfw_score = 1
    /\ v_frames[2].full_probs # v_frames[3].full_probs
    /\ v_verdict[1].full_probs = v_frames[2].full_probs
    /\ v_verdict[1].is_nsfw
    /\ ~v_frames[1].is_nsfw
    /\ v_meta # <<>>

(***************************************************************************)
(* handler, analyze_media and preprocess_media.                            *)
(***************************************************************************)
\* t / n rounded to the nearest integer, a half to the even neighbour: what
\* round(x, 2) does to a value counted in hundredths.
RoundHalfEven(t, n) ==
    LET q == t \div n
        r == t % n
    IN  IF 2 * r > n THEN q + 1
        ELSE IF 2 * r < n THEN q
        ELSE IF q % 2 = 0 THEN q ELSE q + 1

Shapes == {"ok", "not_dict", "no_keys", "jobs_not_list", "job_without_keys"}
Types == {"images", "videos", "audio"}

\* validate_input(req): "ok", or the message of the ValueError it raises.
ValidateInput(r) ==
    IF r.shape = "not_dict"
    THEN "Input must be a dictionary with 'type' and 'jobs'"
    ELSE IF r.shape = "no_keys" THEN "Missing 'type' or 'jobs' keys"
    ELSE IF r.type \notin {"videos", "images"}
    THEN "Invalid type: must be 'videos' or 'images'"
    ELSE IF r.shape = "jobs_not_list"
            \/ ~(1 <= Len(r.jobs) /\ Len(r.jobs) <= MaxJobsPerRequest)
    THEN "'jobs' must be a list of 1 to 40 jobs"
    ELSE IF r.type = "videos" /\ Len(r.jobs) > MaxVideoJobs
    THEN "Too many video jobs: max 10 allowed"
    ELSE IF r.type = "images" /\ Len(r.jobs) > MaxJobsPerRequest
    THEN "Too many image jobs: max 40 allowed"
    ELSE IF r.shape = "job_without_keys"
    THEN "Each job must contain 'job_id' and 'url' keys"
    ELSE "ok"

\* download_file(url, dest_folder, filename, max_bytes): "ok" when it returns
\* the path of the file it wrote, "neterror" when the request fails and
\* "too_big" when the bytes received exceed max_bytes (the file is removed);
\* in both it returns None.
DownloadFile(net, size, max_bytes) ==
    IF net = "error" THEN "neterror"
    ELSE IF size > max_bytes THEN "too_big"
    ELSE "ok"

\* A mutant of ProbeRejects: the duration ceiling is not looked at.
ProbeRejectsNoCeiling(fps, frame_count) == fps <= 0 \/ frame_count <= 0

\* if fps <= 0 or frame_count <= 0: continue
\* duration = frame_count / fps; if duration > MAX_VIDEO_DURATION: continue
\* (with fps > 0 the quotient exceeds the ceiling iff frame_count exceeds
\* the ceiling times fps)
ProbeRejects(fps, frame_count) ==
    \/ fps <= 0
    \/ frame_count <= 0
    \/ frame_count > MAX_VIDEO_DURATION * fps

\* What extract_video_frames creates under the work directory on entry.
StagingDirs == {"scene", "fps", "spike", "final"}

\* How extract_video_frames ends: it returns the frame paths after writing
\* done.json, or the FFmpeg error of run_scene / run_fps or the
\* FileNotFoundError of the final-frame check propagates.
ExtractOutcomes == {"ok", "ffmpeg_error", "not_found"}

\* (fps, frame_count) as cv2 reports them: 0 fps, 0 frames, 300 s, just above
\* 300 s, 5 s.
Probes == {<<0, 10>>, <<30, 0>>, <<30, 9000>>, <<30, 9001>>, <<1, 5>>}

\* Bytes the server sends for a video, for an image.
VideoSizes == {1048576, 104857601}
ImageSizes == {8, 1048576, 10485761}

\* What a frame or image of a request is to the scan: readable or not by
\* PIL, scored below or above the threshold.
RequestAttrs == [flaw : {"ok", "pil"}, score : {1, 9}]

\* What the environment does to one video job.
VideoOutcomes ==
    {[net |-> net, size |-> size, ext_ok |-> e, opened |-> op, fps |-> pr[1],
      fc |-> pr[2], ex |-> ex, n |-> n] :
        <<net, size, e, op, pr, ex, n>> \in
            {"ok", "error"} \X VideoSizes \X BOOLEAN \X BOOLEAN \X Probes
                \X ExtractOutcomes \X (0..MaxJobFrames)}

\* What the environment does to one image job.
ImageOutcomes ==
    {[net |-> net, size |-> size, ext_ok |-> e] :
        <<net, size, e>> \in {"ok", "error"} \X ImageSizes \X BOOLEAN}

\* video_metadata: duration and fps in hundredths, size_mb in hundredths of
\* a MB. original_filename is the base name of the downloaded file, which
\* download_file, called without a filename, names str(uuid.uuid4()) + ext.
VideoMetadata(o) ==
    [width |-> 320, height |-> 240,
     duration |-> RoundHalfEven(o.fc * 100, o.fps),
     fps |-> o.fps * 100,
     size_mb |-> RoundHalfEven(o.size * 100, 1024 * 1024),
     original_filename |-> "<uuid4>.mp4"]

\* A mutant of ErrorResponse: the text of the exception is lost.
ErrorResponseBlank(msg) == [status |-> "error", message |-> ""]

\* except Exception as e: return {"status": "error", "message": str(e)}
ErrorResponse(msg) == [status |-> "error", message |-> msg]

\* Requests: any shape and type; the job counts 0..MaxJobs, and the counts
\* just above the two limits of validate_input where it rejects them.
JobCounts(t) ==
    (0..MaxJobs) \cup {MaxJobsPerRequest + 1}
        \cup (IF t = "images" THEN {} ELSE {MaxVideoJobs + 1})

Requests ==
    UNION {{[shape |-> sh, type |-> t, jobs |-> [i \in 1..n |-> i]] :
               <<sh, n>> \in Shapes \X JobCounts(t)} : t \in Types}

InitRequest ==
    /\ ExtractIdle
    /\ ScanIdle
    /\ VerdictIdle
    /\ SampleIdle
    /\ DetectIdle
    /\ req \in Requests
    /\ rpc = "start"
    /\ a_exit = "running"
    /\ ji = 1
    /\ round_dir = FALSE
    /\ jdisk = [j \in 1..Len(req.jobs) |-> {}]
    /\ preprocessed_jobs = <<>>
    /\ scan_results = <<>>
    /\ response = [status |-> "none"]
    /\ jlog = <<>>

\* handler -> analyze_media: round_id = str(uuid.uuid4());
\* validate_input(request), and again on entry of preprocess_media. A
\* ValueError propagates to handler, which answers with its message.
HandlerValidate ==
    /\ rpc = "start"
    /\ IF ValidateInput(req) # "ok"
       THEN /\ response' = ErrorResponse(ValidateInput(req))
            /\ a_exit' = "raised"
            /\ rpc' = "done"
       ELSE /\ rpc' = "preprocess"
            /\ UNCHANGED <<response, a_exit>>
    /\ UNCHANGED <<req, ji, round_dir, jdisk, preprocessed_jobs, scan_results, jlog>>
    /\ UNCHANGED <<evars, svars, vvars, xvars, dvars>>

\* preprocess_media, images: one iteration of "for job in jobs".
PreprocessImageJob ==
    /\ rpc = "preprocess"
    /\ req.type = "images"
    /\ ji <= Len(req.jobs)
    /\ \E o \in ImageOutcomes :
         LET dl == DownloadFile(o.net, o.size, MAX_IMAGE_SIZE_MB)
             usable == dl = "ok" /\ o.ext_ok
         IN  /\ round_dir' = TRUE
             /\ jdisk' = [jdisk EXCEPT ![ji] = IF dl = "ok" THEN {"media"} ELSE {}]
             /\ preprocessed_jobs' =
                  IF usable
                  THEN Append(preprocessed_jobs, [job_id |-> req.jobs[ji], image_path |-> ji])
                  ELSE preprocessed_jobs
             /\ jlog' = Append(jlog,
                  [job_id |-> req.jobs[ji], dl |-> dl,
                   ext_ok |-> dl = "ok" /\ o.ext_ok,
                   opened |-> FALSE, fps |-> 0, fc |-> 0,
                   extract |-> "not_invoked", n |-> 0,
                   size |-> IF dl = "ok" THEN o.size ELSE 0,
                   sent |-> IF dl = "neterror" THEN 0 ELSE o.size,
                   scan |-> "none"])
    /\ ji' = ji + 1
    /\ UNCHANGED <<req, rpc, a_exit, scan_results, response>>
    /\ UNCHANGED <<evars, svars, vvars, xvars, dvars>>

\* preprocess_media, videos: one iteration of "for job in jobs": download,
\* probe, extract_video_frames, wait_for_done, metadata. An exception of the
\* extraction propagates through analyze_media to handler.
PreprocessVideoJob ==
    /\ rpc = "preprocess"
    /\ req.type = "videos"
    /\ ji <= Len(req.jobs)
    /\ \E o \in VideoOutcomes :
         LET dl == DownloadFile(o.net, o.size, MAX_VIDEO_SIZE_MB)
             usable == dl = "ok" /\ o.ext_ok
             probed == usable /\ o.opened
             accepted == probed /\ ~ProbeRejects(o.fps, o.fc)
             ex == IF accepted THEN o.ex ELSE "not_invoked"
             frames == IF ex = "ok" THEN [i \in 1..o.n |-> i] ELSE <<>>
         IN  /\ round_dir' = TRUE
             /\ jdisk' = [jdisk EXCEPT ![ji] =
                            (IF dl = "ok" THEN {"media"} ELSE {})
                            \cup (IF accepted THEN StagingDirs ELSE {})
                            \cup (IF ex = "ok" THEN {"done.json"} ELSE {})]
             /\ preprocessed_jobs' =
                  IF usable
                  THEN Append(preprocessed_jobs,
                         [job_id |-> req.jobs[ji], frames_paths |-> frames,
                          metadata |-> IF ex = "ok" THEN VideoMetadata(o) ELSE <<>>])
                  ELSE preprocessed_jobs
             /\ jlog' = Append(jlog,
                  [job_id |-> req.jobs[ji], dl |-> dl,
                   ext_ok |-> usable, opened |-> probed,
                   fps |-> IF probed THEN o.fps ELSE 0,
                   fc |-> IF probed THEN o.fc ELSE 0,
                   extract |-> ex, n |-> Len(frames),
                   size |-> IF ex = "ok" THEN o.size ELSE 0,
                   sent |-> IF dl = "neterror" THEN 0 ELSE o.size,
                   scan |-> "none"])
             /\ IF ex \in {"ffmpeg_error", "not_found"}
                THEN /\ response' = ErrorResponse(ex)
                     /\ a_exit' = "raised"
                     /\ rpc' = "done"
                     /\ ji' = ji
                ELSE /\ ji' = ji + 1
                     /\ UNCHANGED <<response, a_exit, rpc>>
    /\ UNCHANGED <<req, scan_results>>
    /\ UNCHANGED <<evars, svars, vvars, xvars, dvars>>

\* return preprocessed_jobs
PreprocessReturn ==
    /\ rpc = "preprocess"
    /\ ji > Len(req.jobs)
    /\ rpc' = "scan"
    /\ ji' = 1
    /\ UNCHANGED <<req, a_exit, round_dir, jdisk, preprocessed_jobs, scan_results,
                   response, jlog>>
    /\ UNCHANGED <<evars, svars, vvars, xvars, dvars>>

\* analyze_media, images: scan_frames over all image paths (they are on
\* disk: the existence check passes at once), frame_count and engine_version
\* added to each result, shutil.rmtree(..., ignore_errors=True), and the
\* function ends without a return statement: handler gets None.
ScanImages ==
    /\ rpc = "scan"
    /\ req.type = "images"
    /\ LET paths == [i \in 1..Len(preprocessed_jobs) |-> preprocessed_jobs[i].image_path]
       IN  \E ok \in BOOLEAN, attr \in [Range(paths) -> RequestAttrs] :
             LET results == IF paths = <<>> THEN <<>>
                            ELSE ScanTry("images", paths, attr, ok)
             IN  scan_results' =
                   [i \in 1..Len(results) |->
                      [result |-> results[i], frame_count |-> 1,
                       engine_version |-> "scan-engine-v1"]]
    /\ \E removed \in BOOLEAN :
         /\ round_dir' = (round_dir /\ ~removed)
         /\ jdisk' = IF removed THEN [j \in DOMAIN jdisk |-> {}] ELSE jdisk
    /\ response' = [status |-> "success", results |-> [kind |-> "None"]]
    /\ a_exit' = "returned"
    /\ rpc' = "done"
    /\ UNCHANGED <<req, ji, preprocessed_jobs, jlog>>
    /\ UNCHANGED <<evars, svars, vvars, xvars, dvars>>

\* analyze_media, videos: one iteration of "for job in preprocessed_jobs".
\* The frames were confirmed on disk by the extraction, so the existence
\* check of scan_frames passes at once.
ScanVideoJob ==
    /\ rpc = "scan"
    /\ req.type = "videos"
    /\ ji <= Len(preprocessed_jobs)
    /\ LET job == preprocessed_jobs[ji]
           frames == job.frames_paths
           k == CHOOSE k \in 1..Len(jlog) : jlog[k].job_id = job.job_id
       IN  IF frames = <<>>
           THEN /\ UNCHANGED scan_results
                /\ jlog' = [jlog EXCEPT ![k].scan = "skipped"]
           ELSE \E ok \in BOOLEAN, attr \in [Range(frames) -> RequestAttrs] :
                  LET frame_results == ScanTry("videos", frames, attr, ok)
                  IN  /\ scan_results' =
                           IF frame_results = <<>> THEN scan_results
                           ELSE Append(scan_results,
                                  VideoVerdict(job.job_id, job.metadata, frame_results))
                      /\ jlog' = [jlog EXCEPT ![k].scan =
                                    IF scan_images_for_nsfw(frames, attr, ok).raised
                                    THEN "raised" ELSE "classified"]
    /\ ji' = ji + 1
    /\ UNCHANGED <<req, rpc, a_exit, round_dir, jdisk, preprocessed_jobs, response>>
    /\ UNCHANGED <<evars, svars, vvars, xvars, dvars>>

\* scan_results = video_results; return {"results": scan_results}: the
\* return precedes shutil.rmtree.
VideosReturn ==
    /\ rpc = "scan"
    /\ req.type = "videos"
    /\ ji > Len(preprocessed_jobs)
    /\ response' = [status |-> "success",
                    results |-> [kind |-> "dict", results |-> scan_results]]
    /\ a_exit' = "returned"
    /\ rpc' = "done"
    /\ UNCHANGED <<req, ji, round_dir, jdisk, preprocessed_jobs, scan_results, jlog>>
    /\ UNCHANGED <<evars, svars, vvars, xvars, dvars>>

NextRequest ==
    \/ HandlerValidate
    \/ PreprocessImageJob
    \/ PreprocessVideoJob
    \/ PreprocessReturn
    \/ ScanImages
    \/ ScanVideoJob
    \/ VideosReturn

SpecRequest == InitRequest /\ [][NextRequest]_vars

(***************************************************************************)
(* Properties of the request flow.                                         *)
(***************************************************************************)
\* The extraction of job j of the log failed fatally.
ExtractionFailed(j) == jlog[j].extract \in {"ffmpeg_error", "not_found"}

\* The video was downloaded and opened, and its probe is one of those the
\* duration gate turns away.
ProbeTurnedAway(j) ==
    /\ jlog[j].dl = "ok"
    /\ jlog[j].ext_ok
    /\ jlog[j].opened
    /\ \/ jlog[j].fps <= 0
       \/ jlog[j].fc <= 0
       \/ jlog[j].fc > 300 * jlog[j].fps

\* C1: once analyze_media has returned or raised, the round directory
\* BASE_DIR/<round_id> does not exist.
C1_RoundRemoved ==
    a_exit \in {"returned", "raised"} => ~round_dir

\* C3: in a videos request with several jobs one of whose extractions fails
\* fatally, every sibling job is still preprocessed, the response is a
\* success and reports a verdict for every sibling that yielded frames.
C3_SiblingsSurvive ==
    (/\ rpc = "done"
     /\ req.type = "videos"
     /\ Len(req.jobs) >= 2
     /\ \E j \in 1..Len(jlog) : ExtractionFailed(j)) =>
        /\ Len(jlog) = Len(req.jobs)
        /\ response.status = "success"
        /\ Len(response.results.results) =
             Cardinality({j \in 1..Len(jlog) : jlog[j].n > 0})

\* C10: a downloaded video whose probe reports fps <= 0, frame count <= 0 or
\* a duration above 300 s is skipped before extraction: extract_video_frames
\* is not invoked, its work directory holds no staging directory and no
\* done.json, its frame list is empty, and preprocessing goes on without
\* raising.
C10_SkippedBeforeExtraction ==
    req.type = "videos" =>
      \A j \in 1..Len(jlog) :
        ProbeTurnedAway(j) =>
          /\ jlog[j].extract = "not_invoked"
          /\ jdisk[j] \cap (StagingDirs \cup {"done.json"}) = {}
          /\ \E k \in 1..Len(preprocessed_jobs) :
                /\ preprocessed_jobs[k].job_id = jlog[j].job_id
                /\ preprocessed_jobs[k].frames_paths = <<>>
          /\ rpc = "preprocess" => ji > j
          /\ a_exit = "raised" => Len(jlog) > j

\* C10 witness: the first job, 9001 frames at 30 fps, was turned away and
\* the second job's frames were extracted.
C10_Witness ==
    /\ req.type = "videos"
    /\ Len(jlog) = 2
    /\ jlog[1].fps = 30
    /\ jlog[1].fc = 9001
    /\ jlog[1].extract = "not_invoked"
    /\ jlog[2].extract = "ok"
    /\ jlog[2].n = 2
    /\ "done.json" \in jdisk[2]

\* The image jobs whose download returned a path with an allowed extension.
ImagesKept == {j \in 1..Len(jlog) : jlog[j].ext_ok}

\* C11: in an images request where some job's download fails or yields a
\* disallowed extension, the handler answers "success" and the results it
\* returns hold one verdict, with frame_count = 1, for each remaining job.
C11_RemainingImagesReported ==
    (/\ rpc = "done"
     /\ req.type = "images"
     /\ a_exit = "returned"
     /\ \E j \in 1..Len(jlog) : ~jlog[j].ext_ok) =>
        /\ response.status = "success"
        /\ response.results.kind = "list"
        /\ Len(response.results.results) = Cardinality(ImagesKept)
        /\ \A i \in 1..Len(response.results.results) :
             response.results.results[i].frame_count = 1

\* The result entries of a success response: the list under "results" for
\* videos, nothing for the None of images.
Entries ==
    IF response.status = "success" /\ response.results.kind = "dict"
    THEN response.results.results ELSE <<>>

\* C12: a valid request with N jobs is answered with at most N result
\* entries, and every entry carries the job_id of the job it was produced
\* for: under a "job_id" key, or as the one name the entry has, "filename".
C12_EntriesTraceable ==
    (rpc = "done" /\ ValidateInput(req) = "ok") =>
        /\ Len(Entries) <= Len(req.jobs)
        /\ \A i \in 1..Len(Entries) :
             \/ "job_id" \in DOMAIN Entries[i]
             \/ Entries[i].filename \in {ToString(req.jobs[j]) : j \in 1..Len(req.jobs)}

\* str(e) of the exception that left analyze_media: the ValueError of
\* validate_input, or what the extraction of the last job logged raised.
RaisedMessage ==
    IF ValidateInput(req) # "ok" THEN ValidateInput(req)
    ELSE jlog[Len(jlog)].extract

\* What analyze_media returned: {"results": scan_results} for videos, None
\* for images.
ReturnedValue ==
    IF req.type = "videos" THEN [kind |-> "dict", results |-> scan_results]
    ELSE [kind |-> "None"]

\* C13: handler always answers: with {status: "error", message: str(e)} when
\* analyze_media raised, with {status: "success", results: <the returned
\* value>} when it returned; and a request that validation rejects leaves no
\* directory on disk.
C13_HandlerAnswers ==
    /\ rpc = "done" => a_exit \in {"returned", "raised"}
    /\ a_exit = "raised" =>
         /\ rpc = "done"
         /\ response = [status |-> "error", message |-> RaisedMessage]
    /\ a_exit = "returned" =>
         /\ rpc = "done"
         /\ response = [status |-> "success", results |-> ReturnedValue]
    /\ ValidateInput(req) # "ok" =>
         /\ ~round_dir
         /\ \A j \in DOMAIN jdisk : jdisk[j] = {}
         /\ rpc \in {"start", "done"}

\* C13 witness: a request with no jobs was rejected and answered with the
\* message of validate_input.
C13_Witness ==
    /\ rpc = "done"
    /\ a_exit = "raised"
    /\ req.shape = "ok"
    /\ req.type = "images"
    /\ Len(req.jobs) = 0
    /\ response.status = "error"
    /\ response.message = "'jobs' must be a list of 1 to 40 jobs"
    /\ ~round_dir

(***************************************************************************)
(* extract_video_frames from the start: the three executors run_scene,     *)
(* run_fps and run_spike_frames on a pool of three threads, the pool of    *)
(* run_spike_frames, the calling thread joining them, then the             *)
(* Deduplicator, the check of the final frames and done.json.              *)
(***************************************************************************)
\* A mutant of Futures: the future of run_spike_frames is joined first.
FuturesSpikeFirst == <<"spike", "scene", "fps">>

\* futures = [submit(run_scene), submit(run_fps), submit(run_spike_frames)]
Futures == <<"scene", "fps", "spike">>

\* step = int(fps * sample_interval), sample_interval = 0.1: with fps in
\* hundredths, the integer part of fps / 1000.
Stride(fps) == fps \div 1000

\* spike_timestamps[:max_spike_frames]: the length of the slice
Truncated(n) == IF n <= max_spike_frames THEN n ELSE max_spike_frames

\* A mutant of Finished: a run_spike_frames that has handed its timestamps
\* to the pool counts as finished.
FinishedOrPooling(t) == task[t] # "running"

\* The future of task t is done: f.result() returns or raises, and the
\* shutdown of the executor no longer waits for it.
Finished(t) == task[t] \in {"ok", "failed"}

\* Every extract_at_ts handed to the pool of run_spike_frames has ended.
WorkersDone == \A i \in DOMAIN worker : worker[i] \in {"ok", "failed"}

\* The candidate files an FFmpeg run may leave in its directory: up to
\* MaxSampled files frame_001.jpg, ..., of any content.
Sampled ==
    UNION {{FilesOf(c) : c \in [1..n -> Hashes \X {"none"}]} : n \in 0..MaxSampled}

\* Frame rates of a video that preprocess_media lets through (fps > 0):
\* 5, 29.97 and 30 fps.
SourceFps == {500, 2997, 3000}

InitSample ==
    /\ staging = [d \in Dirs |-> {}]
    /\ staging0 = staging
    /\ final_dir = {}
    /\ lagging = {}
    /\ done = <<>>
    /\ epc = "executors"
    /\ seen = {}
    /\ frame_paths = <<>>
    /\ folder = 1
    /\ listing = <<>>
    /\ count = 0
    /\ added = 0
    /\ missing = {}
    /\ retry_i = 0
    /\ visited = <<>>
    /\ claimedFrom = <<>>
    /\ counts = [d \in Dirs |-> -1]
    /\ wmeta = <<>>
    /\ wstat = 0
    /\ wpc = "polling"
    /\ waited = 0
    /\ run = 1
    /\ mode = None
    /\ first_paths = <<>>
    /\ ScanIdle
    /\ VerdictIdle
    /\ RequestIdle
    /\ DetectIdle
    /\ x_fps \in SourceFps
    /\ xpc = "join"
    /\ join_i = 1
    /\ task = [t \in Dirs |-> "running"]
    /\ detected = -1
    /\ worker = <<>>
    /\ x_error = "none"

\* What the steps of the executors leave alone.
SamplerFrame ==
    /\ UNCHANGED <<staging0, final_dir, lagging, done, epc, seen, frame_paths,
                   folder, listing, count, added, missing, retry_i, visited,
                   claimedFrom, counts, wmeta, wstat, wpc, waited, run, mode,
                   first_paths>>
    /\ UNCHANGED <<svars, vvars, rvars, dvars>>
    /\ UNCHANGED <<x_fps, xpc, join_i, x_error>>

\* run_scene / run_fps: run_ffmpeg writes its frames and returns, or
\* ffmpeg.Error is logged and raised again.
RunFfmpeg ==
    \E t \in {"scene", "fps"}, files \in Sampled, ok \in BOOLEAN :
        /\ task[t] = "running"
        /\ staging' = [staging EXCEPT ![t] = files]
        /\ task' = [task EXCEPT ![t] = IF ok THEN "ok" ELSE "failed"]
        /\ UNCHANGED <<detected, worker>>
        /\ SamplerFrame

\* run_spike_frames up to pool.map: detect_luma_spike_timestamps returns []
\* for fps == 0, raises ZeroDivisionError at its first "frame_idx % step"
\* when step is 0, and otherwise returns its timestamps; the first
\* max_spike_frames of them are handed to the pool.
SpikeDetect ==
    /\ task["spike"] = "running"
    /\ IF x_fps # 0 /\ Stride(x_fps) = 0
       THEN /\ task' = [task EXCEPT !["spike"] = "failed"]
            /\ UNCHANGED <<detected, worker>>
       ELSE /\ \E n \in 0..MaxSpikes :
                 /\ detected' = IF x_fps = 0 THEN 0 ELSE n
                 /\ worker' = [i \in 0..(Truncated(detected') - 1) |-> "queued"]
            /\ task' = [task EXCEPT !["spike"] = "pool"]
    /\ UNCHANGED staging
    /\ SamplerFrame

\* A thread of the pool (max_workers=4) takes the next extract_at_ts.
WorkerStart ==
    \E i \in DOMAIN worker :
        /\ worker[i] = "queued"
        /\ \A j \in DOMAIN worker : j < i => worker[j] # "queued"
        /\ Cardinality({j \in DOMAIN worker : worker[j] = "running"}) < PoolWorkers
        /\ worker' = [worker EXCEPT ![i] = "running"]
        /\ UNCHANGED <<staging, task, detected>>
        /\ SamplerFrame

\* extract_at_ts(path, out_dir, i, ts): writes frame_{i:03d}.jpg, or
\* ffmpeg.Error is logged and swallowed.
WorkerFinish ==
    \E i \in DOMAIN worker, ok \in BOOLEAN, h \in Hashes :
        /\ worker[i] = "running"
        /\ IF ok
           THEN /\ staging' = [staging EXCEPT !["spike"] =
                                 @ \cup {[name |-> i, h |-> h, fault |-> "none"]}]
                /\ worker' = [worker EXCEPT ![i] = "ok"]
           ELSE /\ worker' = [worker EXCEPT ![i] = "failed"]
                /\ UNCHANGED staging
        /\ UNCHANGED <<task, detected>>
        /\ SamplerFrame

\* The with block of the pool ends: shutdown(wait=True) has waited for every
\* extract_at_ts; the iterator of pool.map is never read, so nothing raises.
PoolExit ==
    /\ task["spike"] = "pool"
    /\ WorkersDone
    /\ task' = [task EXCEPT !["spike"] = "ok"]
    /\ UNCHANGED <<staging, detected, worker>>
    /\ SamplerFrame

\* What the steps of the calling thread leave alone while the executors run.
JoinFrame ==
    /\ UNCHANGED <<final_dir, lagging, done, seen, frame_paths,
                   folder, listing, count, added, missing, retry_i, visited,
                   claimedFrom, counts, wmeta, wstat, wpc, waited, run, mode,
                   first_paths>>
    /\ UNCHANGED <<svars, vvars, rvars, dvars>>
    /\ UNCHANGED <<x_fps, task, detected, worker, staging>>

\* for f in futures: f.result(): waits for the future, and raises what its
\* task raised.
JoinResult ==
    /\ xpc = "join"
    /\ Finished(Futures[join_i])
    /\ IF task[Futures[join_i]] = "failed"
       THEN /\ x_error' = Futures[join_i]
            /\ xpc' = "shutdown"
            /\ join_i' = join_i
       ELSE /\ x_error' = x_error
            /\ IF join_i < Len(Futures)
               THEN join_i' = join_i + 1 /\ xpc' = "join"
               ELSE join_i' = join_i /\ xpc' = "shutdown"
    /\ UNCHANGED <<epc, staging0>>
    /\ JoinFrame

\* The with block of the executor ends (ThreadPoolExecutor.__exit__ waits
\* for every task), then the exception goes on to the caller, or the
\* Deduplicator starts: seen = set(); frame_paths = [].
ExecutorExit ==
    /\ xpc = "shutdown"
    /\ \A t \in Dirs : Finished(t)
    /\ IF x_error # "none"
       THEN /\ xpc' = "raised"
            /\ UNCHANGED <<epc, staging0>>
       ELSE /\ xpc' = "done"
            /\ epc' = "add_frames"
            /\ staging0' = staging
    /\ UNCHANGED <<join_i, x_error>>
    /\ JoinFrame

NextSample ==
    \/ RunFfmpeg
    \/ SpikeDetect
    \/ WorkerStart
    \/ WorkerFinish
    \/ PoolExit
    \/ JoinResult
    \/ ExecutorExit
    \/ NextExtract

SpecSample == InitSample /\ [][NextSample]_vars

(***************************************************************************)
(* Properties of the executors.                                            *)
(***************************************************************************)
\* The Deduplicator has started (and may have ended).
DedupStarted == epc \notin {"executors", "idle"}

\* C14: no step of the Deduplicator happens while an executor or a worker
\* of the spike pool is running: once it has started, run_scene, run_fps
\* and run_spike_frames have ended, every extract_at_ts has ended, and the
\* staging directories hold what the executors left minus what was moved.
C14_DedupAfterJoin ==
    /\ DedupStarted =>
         /\ \A t \in Dirs : task[t] \in {"ok", "failed"}
         /\ \A i \in DOMAIN worker : worker[i] \in {"ok", "failed"}
         /\ xpc = "done"
         /\ \A d \in Dirs : staging[d] \subseteq staging0[d]
    /\ ~DedupStarted =>
         /\ visited = <<>>
         /\ final_dir = {}

\* C14 witness: the Deduplicator has visited a frame of the spike directory,
\* written by the second of two extract_at_ts, the first having failed.
C14_Witness ==
    /\ DedupStarted
    /\ Len(visited) >= 2
    /\ visited[Len(visited)].dir = "spike"
    /\ DOMAIN worker = 0..1
    /\ worker[0] = "failed"
    /\ worker[1] = "ok"

\* The FFmpeg executors (scene, fps) whose run_ffmpeg raised.
FfmpegFailed == {t \in {"scene", "fps"} : task[t] = "failed"}

\* C15: when run_ffmpeg of the scene or of the fps executor fails,
\* extract_video_frames raises that error, in whatever order the three
\* tasks end: the join does not get past the failed future, the error
\* raised is that of a failed FFmpeg executor, no staging file is moved to
\* final_dir, no frame path is claimed and done.json is not written.
C15_FfmpegFailureFatal ==
    FfmpegFailed # {} =>
        /\ xpc \in {"join", "shutdown", "raised"}
        /\ task["scene"] = "failed" => join_i = 1
        /\ task["fps"] = "failed" => join_i <= 2
        /\ xpc \in {"shutdown", "raised"} => x_error \in FfmpegFailed
        /\ epc = "executors"
        /\ final_dir = {}
        /\ frame_paths = <<>>
        /\ visited = <<>>
        /\ done = <<>>
        /\ wmeta = <<>>

\* C15 witness: run_scene left a frame and succeeded, run_spike_frames
\* raised, run_fps failed, and the error of run_fps was raised.
C15_Witness ==
    /\ xpc = "raised"
    /\ x_error = "fps"
    /\ task["scene"] = "ok"
    /\ task["spike"] = "failed"
    /\ staging["scene"] # {}
    /\ final_dir = {}

\* The hashes of the candidates the executors produced.
Produced == {f.h : f \in UNION {staging0[d] : d \in Dirs}}

\* C16: run_spike_frames hands at most max_spike_frames timestamps to
\* extract_at_ts and completes normally whichever of them fail; when the
\* scene and fps executors succeeded the extraction does not raise out of
\* the executor, goes on to the Deduplicator, and the done.json it writes
\* counts the final frames built from the candidates that were produced.
C16_SpikeFailuresSkipped ==
    /\ Cardinality(DOMAIN worker) <= max_spike_frames
    /\ task["spike"] # "failed"
    /\ (task["scene"] = "ok" /\ task["fps"] = "ok") => xpc # "raised"
    /\ epc = "returned" =>
         /\ done = <<[total_frames |-> Cardinality(Produced)]>>
         /\ Range(frame_paths) = Produced

\* C17: after the Deduplicator the claimed final frames are checked, and
\* while one is missing re-checked at most FlushRetries times; a check that
\* finds every frame ends the re-checks, and done.json is then written with
\* total_frames = len(frame_paths); FileNotFoundError is raised only when
\* the last re-check still found a frame missing, and done.json is then not
\* written.
C17_ProducerBarrier ==
    /\ retry_i <= FlushRetries
    /\ epc = "retry" => (missing # {} /\ retry_i < FlushRetries)
    /\ (epc = "verdict" /\ missing # {}) => retry_i = FlushRetries
    /\ epc = "raised" =>
         /\ missing # {}
         /\ retry_i = FlushRetries
         /\ done = <<>>
    /\ done # <<>> =>
         /\ missing = {}
         /\ done[1].total_frames = Len(frame_paths)
         /\ epc = "returned"

\* C17 witness: two final frames were claimed, one was still missing at the
\* tenth re-check, and FileNotFoundError was raised.
C17_Witness ==
    /\ epc = "raised"
    /\ retry_i = FlushRetries
    /\ Len(frame_paths) = 2
    /\ Cardinality(missing) = 1
    /\ done = <<>>

(***************************************************************************)
(* wait_for_done by itself: the marker is written by a producer at any     *)
(* time, or never.                                                         *)
(***************************************************************************)
InitWait ==
    /\ staging = [d \in Dirs |-> {}]
    /\ staging0 = staging
    /\ final_dir = {}
    /\ lagging = {}
    /\ done = <<>>
    /\ epc = "producing"
    /\ seen = {}
    /\ frame_paths = <<>>
    /\ folder = 1
    /\ listing = <<>>
    /\ count = 0
    /\ added = 0
    /\ missing = {}
    /\ retry_i = 0
    /\ visited = <<>>
    /\ claimedFrom = <<>>
    /\ counts = [d \in Dirs |-> -1]
    /\ wmeta = <<>>
    /\ wstat = 0
    /\ wpc = "polling"
    /\ waited = 0
    /\ run = 1
    /\ mode = None
    /\ first_paths = <<>>
    /\ ScanIdle
    /\ VerdictIdle
    /\ RequestIdle
    /\ SampleIdle
    /\ DetectIdle

\* The producer writes the marker: json.dump(done_data, f).
MarkerWritten ==
    /\ epc = "producing"
    /\ done = <<>>
    /\ \E n \in 0..MaxFiles : done' = <<[total_frames |-> n]>>
    /\ UNCHANGED <<staging, staging0, final_dir, lagging, epc, seen, frame_paths,
                   folder, listing, count, added, missing, retry_i, visited,
                   claimedFrom, counts, wmeta, wstat, wpc, waited, run, mode,
                   first_paths>>
    /\ UNCHANGED <<svars, vvars, rvars, xvars, dvars>>

NextWait ==
    \/ WaitForDone
    \/ MarkerWritten

SpecWait == InitWait /\ [][NextWait]_vars

\* The thread in wait_for_done keeps running; the producer need not.
SpecWaitFair == SpecWait /\ WF_vars(WaitForDone)

\* C18: wait_for_done always ends, by returning or by raising TimeoutError;
\* it returns the marker's content, and only when the marker exists; once
\* the marker exists at a poll it returns; it sleeps 1 s per poll and never
\* more than WaitTimeout + 1 times, so a marker that never appears makes it
\* raise after a bounded number of polls.
C18_WaitTerminates ==
    /\ [](wpc = "returned" => (done # <<>> /\ wmeta = done))
    /\ [](waited <= WaitTimeout + 1)
    /\ [](wpc = "timeout" => waited = WaitTimeout + 1)
    /\ (done # <<>> /\ wpc = "polling") ~> (wpc = "returned")
    /\ <>(wpc \in {"returned", "timeout"})

\* C18 witness: the marker never appeared and TimeoutError was raised.
C18_Witness ==
    /\ epc = "producing"
    /\ wpc = "timeout"
    /\ done = <<>>
    /\ waited = WaitTimeout + 1

\* The place in scan_results of the verdict of job j of the log: verdicts
\* are appended in job order, one per job whose frames were scanned.
VerdictIndex(j) ==
    Cardinality({i \in 1..j : jlog[i].scan \in {"classified", "raised"}})

\* C19: when the classifier raises while the frames of a video job are
\* scanned, analyze_media still appends a verdict for that job, with
\* frame_count = the number of the job's frames, is_nsfw = false and
\* nsfw_score_max = 0.0, and goes on to scan the following jobs: when it
\* returns, every job that had frames has been scanned.
C19_DegradedJobKeepsVerdict ==
    req.type = "videos" =>
      /\ \A j \in 1..Len(jlog) :
           jlog[j].scan = "raised" =>
             /\ jlog[j].n > 0
             /\ VerdictIndex(j) <= Len(scan_results)
             /\ scan_results[VerdictIndex(j)].frame_count = jlog[j].n
             /\ scan_results[VerdictIndex(j)].is_nsfw = FALSE
             /\ scan_results[VerdictIndex(j)].nsfw_score_max = 0
             /\ a_exit # "raised"
      /\ a_exit = "returned" =>
           \A j \in 1..Len(jlog) :
             jlog[j].n > 0 => jlog[j].scan \in {"classified", "raised"}

\* C19 witness: the classifier raised on the two frames of the first job,
\* the frames of the second job were classified, and both have a verdict.
C19_Witness ==
    /\ req.type = "videos"
    /\ a_exit = "returned"
    /\ Len(jlog) = 2
    /\ jlog[1].scan = "raised"
    /\ jlog[1].n = 2
    /\ jlog[2].scan = "classified"
    /\ Len(scan_results) = 2
    /\ scan_results[1].frame_count = 2
    /\ scan_results[2].nsfw_score_max = 9

(***************************************************************************)
(* detect_luma_spike_timestamps(video_path) by itself.                     *)
(***************************************************************************)
\* cap.get(cv2.CAP_PROP_FPS) in hundredths: 0, 5, 9.99, 10, 15, 25, 29.97
\* and 30 fps.
DetectFps == {0, 500, 999, 1000, 1500, 2500, 2997, 3000}

InitDetect ==
    /\ ExtractIdle
    /\ ScanIdle
    /\ VerdictIdle
    /\ RequestIdle
    /\ SampleIdle
    /\ d_opened \in BOOLEAN
    /\ d_fps \in (IF d_opened THEN DetectFps ELSE {0})
    /\ d_frames \in 0..MaxDetFrames
    /\ dpc = "start"
    /\ step = 0
    /\ frame_idx = 0
    /\ prev_gray = FALSE
    /\ last_spike = -1
    /\ timestamps = <<>>

\* if fps == 0: return []; step = int(fps * sample_interval); timestamps = []
DetectStart ==
    /\ dpc = "start"
    /\ IF d_fps = 0
       THEN /\ dpc' = "returned"
            /\ step' = step
       ELSE /\ step' = Stride(d_fps)
            /\ dpc' = "loop"
    /\ UNCHANGED <<d_opened, d_fps, d_frames, frame_idx, prev_gray, last_spike,
                   timestamps>>
    /\ UNCHANGED <<evars, svars, vvars, rvars, xvars>>

\* (ts - last_spike_time) >= suppression_window, with ts = frame_idx / fps,
\* suppression_window = 1.0 and last_spike_time = -1.0 at first
Unsuppressed == last_spike = -1 \/ (frame_idx - last_spike) * 100 >= d_fps

\* One pass of "while cap.isOpened()": frame_idx % step raises
\* ZeroDivisionError when step is 0; a frame off the stride is grabbed; at
\* the stride cap.read() ends the loop when no frame is left, else the frame
\* is compared with the previous sampled frame and round(ts, 2) is recorded
\* when the difference exceeds diff_thresh outside the suppression window.
DetectLoop ==
    /\ dpc = "loop"
    /\ IF ~d_opened
       THEN /\ dpc' = "returned"
            /\ UNCHANGED <<frame_idx, prev_gray, last_spike, timestamps>>
       ELSE IF step = 0
       THEN /\ dpc' = "raised"
            /\ UNCHANGED <<frame_idx, prev_gray, last_spike, timestamps>>
       ELSE IF frame_idx % step # 0
       THEN /\ frame_idx' = frame_idx + 1
            /\ UNCHANGED <<dpc, prev_gray, last_spike, timestamps>>
       ELSE IF frame_idx >= d_frames
       THEN /\ dpc' = "returned"
            /\ UNCHANGED <<frame_idx, prev_gray, last_spike, timestamps>>
       ELSE /\ \E spike \in BOOLEAN :
                 IF prev_gray /\ spike /\ Unsuppressed
                 THEN /\ timestamps' = Append(timestamps,
                                          RoundHalfEven(frame_idx * 10000, d_fps))
                      /\ last_spike' = frame_idx
                 ELSE UNCHANGED <<timestamps, last_spike>>
            /\ prev_gray' = TRUE
            /\ frame_idx' = frame_idx + 1
            /\ dpc' = dpc
    /\ UNCHANGED <<d_opened, d_fps, d_frames, step>>
    /\ UNCHANGED <<evars, svars, vvars, rvars, xvars>>

NextDetect ==
    \/ DetectStart
    \/ DetectLoop

SpecDetect == InitDetect /\ [][NextDetect]_vars

\* C20: for a positive fps the detector samples at the stride
\* round(fps * 0.1), which is at least 1, and it does not raise; for fps = 0
\* it returns the empty sequence.
C20_StrideIsRounded ==
    /\ dpc # "raised"
    /\ (dpc \in {"loop", "returned"} /\ d_fps > 0) =>
         /\ step = RoundHalfEven(d_fps, 1000)
         /\ step >= 1
    /\ (dpc = "returned" /\ d_fps = 0) => timestamps = <<>>

(***************************************************************************)
(* One video job of preprocess_media from the call of                      *)
(* extract_video_frames on: the Deduplicator, the check of the final       *)
(* frames, done.json, wait_for_done, and the descriptor of the job.        *)
(***************************************************************************)
InitJob ==
    /\ staging \in SmallStaging
    /\ staging0 = staging
    /\ final_dir = {}
    /\ lagging = {}
    /\ done = <<>>
    /\ epc = "add_frames"
    /\ seen = FreshSeen({})
    /\ frame_paths = <<>>
    /\ folder = 1
    /\ listing = <<>>
    /\ count = 0
    /\ added = 0
    /\ missing = {}
    /\ retry_i = 0
    /\ visited = <<>>
    /\ claimedFrom = <<>>
    /\ counts = [d \in Dirs |-> -1]
    /\ wmeta = <<>>
    /\ wstat = 0
    /\ wpc = "polling"
    /\ waited = 0
    /\ run = 1
    /\ mode = None
    /\ first_paths = <<>>
    /\ ScanIdle
    /\ VerdictIdle
    /\ SampleIdle
    /\ DetectIdle
    /\ req = [shape |-> "ok", type |-> "videos", jobs |-> <<1>>]
    /\ rpc = "preprocess"
    /\ a_exit = "running"
    /\ ji = 1
    /\ round_dir = TRUE
    /\ jdisk = <<{"media"} \cup StagingDirs>>
    /\ preprocessed_jobs = <<[job_id |-> 1, frames_paths |-> <<>>, metadata |-> <<>>]>>
    /\ scan_results = <<>>
    /\ response = [status |-> "none"]
    /\ jlog = <<>>

\* preprocessed_jobs[-1]["frames_paths"] = frames;
\* preprocessed_jobs[-1]["metadata"] = video_metadata: the statements that
\* follow the return of wait_for_done (a 30 fps video of 9000 frames).
SetDescriptor ==
    /\ rpc = "preprocess"
    /\ epc = "returned"
    /\ wpc = "returned"
    /\ preprocessed_jobs[ji].metadata = <<>>
    /\ preprocessed_jobs' =
         [preprocessed_jobs EXCEPT
            ![ji] = [job_id |-> @.job_id, frames_paths |-> frame_paths,
                     metadata |-> VideoMetadata([fc |-> 9000, fps |-> 30,
                                                 size |-> 1048576])]]
    /\ UNCHANGED <<req, rpc, a_exit, ji, round_dir, jdisk, scan_results, response,
                   jlog>>
    /\ UNCHANGED <<evars, svars, vvars, xvars, dvars>>

NextJob ==
    \/ NextExtract
    \/ SetDescriptor

SpecJob == InitJob /\ [][NextJob]_vars

\* C21: wait_for_done is called only after extract_video_frames has
\* returned, and done.json is written by then: the wait returns the marker
\* at its first existence check, without a sleep, and never times out; and
\* the job's frames_paths and metadata are set only after the marker was
\* read.
C21_WaitNeverWaits ==
    /\ wpc # "timeout"
    /\ waited = 0
    /\ epc # "returned" => (wpc = "polling" /\ wmeta = <<>>)
    /\ epc = "returned" => done # <<>>
    /\ wpc = "returned" => (done # <<>> /\ wmeta = done)
    /\ (\/ preprocessed_jobs[1].metadata # <<>>
        \/ preprocessed_jobs[1].frames_paths # <<>>) =>
         /\ wpc = "returned"
         /\ wmeta = done
         /\ preprocessed_jobs[1].frames_paths = frame_paths

\* C21 witness: two frames were claimed, the marker was read at the first
\* check and the descriptor of the job was filled in.
C21_Witness ==
    /\ wpc = "returned"
    /\ waited = 0
    /\ wmeta = <<[total_frames |-> 2]>>
    /\ Len(preprocessed_jobs[1].frames_paths) = 2
    /\ preprocessed_jobs[1].metadata # <<>>

\* C22: after every step of the Deduplicator the hashes recorded in seen
\* are the hashes of the claimed final frames, also when hashing or moving
\* a candidate failed; so a hash whose first candidate failed to move is
\* not in seen and a later candidate of the same content can claim it.
C22_SeenIsClaimed ==
    epc \in {"add_frames", "loop", "check"} => seen = Range(frame_paths)

\* C23: the ceiling handed to the downloader for images is 10 MB in bytes:
\* when the server answers, an image of up to 10 * 1024 * 1024 bytes is
\* accepted by the download step and a larger one is rejected.
C23_ImageCeilingInBytes ==
    req.type = "images" =>
      \A j \in 1..Len(jlog) :
        jlog[j].dl # "neterror" =>
          (jlog[j].dl = "ok" <=> jlog[j].sent <= 10 * 1024 * 1024)

====
